---- MODULE Spec2Model ----
(***************************************************************************)
(* Sensor HAL of hardware-moto-sensors: the legacy gyroscope sensor        *)
(* (8226/l3g4200d_hal.cpp, class GyroSensor) and the IIO buffered sensor   *)
(* (motosh_hal/IioSensor.cpp, class IioSensor).  One sensor instance is    *)
(* modelled; `kind` says which class it is.  Every public method is one    *)
(* action; `call` records the last call (arguments, result, events written *)
(* to the caller's buffer, and the values the method read on entry).       *)
(***************************************************************************)
EXTENDS Integers, Sequences, FiniteSets, TLC

\* ------------------------------------------------------------- bounds
\* Largest capacity passed to readEvents.
MaxCount == 2
\* Capacity of the input-event ring (mInputReader(32) in the source).
ReaderCap == 2
\* Largest number of input events the kernel offers to one fill().
MaxFill == 1
\* Largest number of records one iio_buffer_refill() returns.
MaxRecords == 3
MaxDecodeFill == 2

\* ---------------------------------------------------------- constants
EINVAL == 22
EIO == 5
EAGAIN == 11
\* reporting-mode bits of sensor_t.flags (hardware/sensors.h)
REPORTING_MODE_MASK == 14
SENSOR_FLAG_ONE_SHOT_MODE == 4
\* handle of the modelled IioSensor (FIRST_HANDLE + i) and a foreign one
OwnHandle == 100
OtherHandle == 101
\* iio_device_get_sample_size(iio_dev): bytes per record
SampleSize == 2
\* the descriptor open_device() obtains
OpenFd == 3
\* per-axis conversion factors of the gyroscope
CONVERT_G_P == 2
CONVERT_G_R == 3
CONVERT_G_Y == 5

Min(a, b) == IF a < b THEN a ELSE b

\* ------------------------------------------------------------ state
VARIABLES
    kind,              \* "gyro" or "iio": the class of the sensor instance
    mEnabled,          \* GyroSensor::mEnabled
    mFlushEnabled,     \* GyroSensor::mFlushEnabled
    dev_fd,            \* SensorBase::dev_fd (-1 when closed)
    mPendingEvent,     \* GyroSensor::mPendingEvent
    mInputReader,      \* events held by the InputEventCircularReader
    sensor_flags,      \* IioSensor::sensor.flags
    iio_buf,           \* IioSensor::iio_buf: TRUE when a buffer exists
    remaining_samples, \* IioSensor::remaining_samples
    bufRecords,        \* records the last iio_buffer_refill put in the buffer
    call,              \* the last call and what it did
    delivered,         \* record indices decoded since the last refill
    lowCap,            \* a readEvents with capacity < 1 since that refill
    liveBuffers,       \* buffers created and not yet destroyed
    wantEnabled,       \* what the last successful own-handle setEnable asked
    created,           \* createIioContext's static flag
    ctxCalls,          \* calls of createIioContext so far, at most 2 counted
    ctxNonNull,        \* how many of them returned a context
    flushCalls         \* flush() requests since the last returned batch
                       \* (saturates at 2: none, one, several)

vars == <<kind, mEnabled, mFlushEnabled, dev_fd, mPendingEvent, mInputReader,
          sensor_flags, iio_buf, remaining_samples, bufRecords, call,
          delivered, lowCap, liveBuffers, wantEnabled, created, ctxCalls,
          ctxNonNull, flushCalls>>

gyroVars == <<mEnabled, mFlushEnabled, dev_fd, mPendingEvent, mInputReader>>
ctxVars == <<created, ctxCalls, ctxNonNull>>

iioVars == <<sensor_flags, iio_buf, remaining_samples, bufRecords, delivered,
            lowCap, liveBuffers, wantEnabled>>

\* ------------------------------------------------------------ events
\* sensors_event_t as far as the two classes fill it in.
GyroEvent(x, y, z, ts) ==
    [type |-> "GYROSCOPE", x |-> x, y |-> y, z |-> z, timestamp |-> ts]

mFlushEvent ==
    [type |-> "META_DATA", x |-> 0, y |-> 0, z |-> 0, timestamp |-> 0]

IioEvent(rec) ==
    [type |-> "sensor.type", sensor |-> OwnHandle, rec |-> rec]

IsMarker(e) == e.type = "META_DATA"

Markers(data) == Cardinality({i \in 1..Len(data) : IsMarker(data[i])})

\* input_event records read from data_fd
InputEvent(type, code, value, sec, usec) ==
    [type |-> type, code |-> code, value |-> value,
     time |-> [sec |-> sec, usec |-> usec]]

\* the events the driver is taken to produce: an axis update and a sync
DriverEvents ==
    {InputEvent("EV_REL", "GYRO_P", 1, 0, 0),
     InputEvent("EV_SYN", "SYN_REPORT", 0, 0, 1)}

\* a richer input for the decoding: every axis, two values for one axis, a
\* relative event with a code the sensor does not know, an event of a type it
\* does not know, and a sync
DecodeEvents ==
    {InputEvent("EV_REL", "GYRO_P", 1, 0, 0),
     InputEvent("EV_REL", "GYRO_P", 2, 0, 0),
     InputEvent("EV_REL", "GYRO_R", 1, 0, 0),
     InputEvent("EV_REL", "GYRO_Y", 1, 0, 0),
     InputEvent("EV_REL", "REL_MISC", 1, 0, 0),
     InputEvent("EV_KEY", "KEY_A", 1, 0, 0),
     InputEvent("EV_SYN", "SYN_REPORT", 0, 1, 1)}

timevalToNano(t) == t.sec * 1000000000 + t.usec * 1000

\* The record of a call; every action fills all fields.
NoCall ==
    [op |-> "none", handle |-> 0, count |-> 0, ret |-> 0, data |-> <<>>,
     flushAtEntry |-> 0, flushCallsAtEntry |-> 0, n |-> 0, refilled |-> FALSE,
     remAtEntry |-> 0, remAfterRefill |-> 0, writes |-> <<>>, period |-> 0,
     en |-> 0, enabledAtEntry |-> 0, fdAtEntry |-> -1, ctx |-> FALSE,
     ctxCallsAtEntry |-> 0, consumed |-> <<>>,
     pendingAtEntry |-> GyroEvent(0, 0, 0, 0)]

\* ------------------------------------------------ SensorBase helpers
\* open_device(): opens dev_name when no descriptor is held; `ok` is whether
\* open(2) succeeds.
open_device(fd, ok) == IF fd < 0 /\ ok THEN OpenFd ELSE fd

\* close_device(): closes the descriptor when one is held.
close_device(fd) == -1

\* ioctl(2) on dev_fd: fails on a closed descriptor, else as the driver says.
IoctlOk(fd, driverOk) == fd >= 0 /\ driverOk

\* InputEventCircularReader::fill(fd): reads at most the free space; a failed
\* read returns the negative errno and leaves the ring alone.
ReaderFill(q, in) ==
    LET free == ReaderCap - Len(q)
        take == SubSeq(in.events, 1, Min(free, Len(in.events)))
    IN  IF free = 0 THEN [n |-> 0, q |-> q]
        ELSE IF in.err < 0 THEN [n |-> in.err, q |-> q]
        ELSE [n |-> Len(take), q |-> q \o take]

\* ---------------------------------------------------------- GyroSensor
\* Faulty variant of processEvent: the P and R axes are swapped.
processEventSwapped(pending, code, value) ==
    CASE code = "GYRO_P" -> [pending EXCEPT !.x = value * CONVERT_G_P]
      [] code = "GYRO_R" -> [pending EXCEPT !.y = value * CONVERT_G_R]
      [] code = "GYRO_Y" -> [pending EXCEPT !.z = value * CONVERT_G_Y]
      [] OTHER -> pending

\* Faulty variant of processEvent: a code it does not know clears the sample.
processEventUnknownClears(pending, code, value) ==
    CASE code = "GYRO_P" -> [pending EXCEPT !.y = value * CONVERT_G_P]
      [] code = "GYRO_R" -> [pending EXCEPT !.x = value * CONVERT_G_R]
      [] code = "GYRO_Y" -> [pending EXCEPT !.z = value * CONVERT_G_Y]
      [] OTHER -> [pending EXCEPT !.x = 0, !.y = 0, !.z = 0]

\* GyroSensor::processEvent
processEvent(pending, code, value) ==
    CASE code = "GYRO_P" -> [pending EXCEPT !.y = value * CONVERT_G_P]
      [] code = "GYRO_R" -> [pending EXCEPT !.x = value * CONVERT_G_R]
      [] code = "GYRO_Y" -> [pending EXCEPT !.z = value * CONVERT_G_Y]
      [] OTHER -> pending

\* Faulty variant of the flush step: the marker is written but the pending
\* flag is left set.
GyroInjectFlushKeepsFlag(flush, count) ==
    IF count # 0 /\ flush # 0
    THEN [mFlushEnabled |-> flush, data |-> <<mFlushEvent>>,
          count |-> count - 1, numEventReceived |-> 1]
    ELSE [mFlushEnabled |-> flush, data |-> <<>>, count |-> count,
          numEventReceived |-> 0]

\* Faulty variant of the flush step: the marker does not take a slot of the
\* caller's capacity.
GyroInjectFlushFreeSlot(flush, count) ==
    IF count # 0 /\ flush # 0
    THEN [mFlushEnabled |-> 0, data |-> <<mFlushEvent>>, count |-> count,
          numEventReceived |-> 1]
    ELSE [mFlushEnabled |-> flush, data |-> <<>>, count |-> count,
          numEventReceived |-> 0]

\* readEvents, the flush step: a pending flush writes mFlushEvent into the
\* first slot, clears the flag and takes one slot of the capacity.
GyroInjectFlush(flush, count) ==
    IF count # 0 /\ flush # 0
    THEN [mFlushEnabled |-> 0, data |-> <<mFlushEvent>>, count |-> count - 1,
          numEventReceived |-> 1]
    ELSE [mFlushEnabled |-> flush, data |-> <<>>, count |-> count,
          numEventReceived |-> 0]

\* readEvents, the decode loop: while (count && mInputReader.readEvent(&event));
\* `num` is numEventReceived.
RECURSIVE GyroDrain(_, _, _, _, _, _)
GyroDrain(q, pending, data, count, num, enabled) ==
    IF count = 0 \/ q = <<>>
    THEN [q |-> q, pending |-> pending, data |-> data,
          numEventReceived |-> num]
    ELSE LET ev == Head(q)
         IN  IF ev.type = "EV_REL"
             THEN GyroDrain(Tail(q), processEvent(pending, ev.code, ev.value),
                            data, count, num, enabled)
             ELSE IF ev.type = "EV_SYN"
             THEN LET p == [pending EXCEPT !.timestamp = timevalToNano(ev.time)]
                  IN  IF enabled # 0
                      THEN GyroDrain(Tail(q), p, Append(data, p), count - 1,
                                     num + 1, enabled)
                      ELSE GyroDrain(Tail(q), p, data, count, num, enabled)
             ELSE GyroDrain(Tail(q), pending, data, count, num, enabled)

\* GyroSensor::readEvents as a function of the object's state and its inputs:
\* the result, the events written to the caller's buffer, and the new state
\* (`filled`: fill() was called, `n`: what it returned).
GyroReadEventsResult(flush, q, pending, enabled, count, in) ==
    IF count < 1
    THEN [ret |-> -EINVAL, data |-> <<>>, mFlushEnabled |-> flush, q |-> q,
          pending |-> pending, filled |-> FALSE, n |-> 0]
    ELSE LET f == GyroInjectFlush(flush, count)
             r == ReaderFill(q, in)
             d == GyroDrain(r.q, pending, f.data, f.count, f.numEventReceived,
                            enabled)
         IN  IF r.n < 0
             THEN [ret |-> r.n, data |-> f.data,
                   mFlushEnabled |-> f.mFlushEnabled, q |-> r.q,
                   pending |-> pending, filled |-> TRUE, n |-> r.n]
             ELSE [ret |-> d.numEventReceived, data |-> d.data,
                   mFlushEnabled |-> f.mFlushEnabled, q |-> d.q,
                   pending |-> d.pending, filled |-> TRUE, n |-> r.n]

\* what a fill() can meet on data_fd: a read error, or up to MaxFill events
FillInputs(events) ==
    {[err |-> -EIO, events |-> <<>>]} \cup
    {[err |-> 0, events |-> s] :
        s \in UNION {[1..k -> events] : k \in 0..MaxFill}}

Counts == -1..MaxCount

GyroReadEvents(count, in) ==
    /\ kind = "gyro"
    /\ LET r == GyroReadEventsResult(mFlushEnabled, mInputReader,
                                     mPendingEvent, mEnabled, count, in)
           all == ReaderFill(mInputReader, in).q
       IN  /\ mFlushEnabled' = r.mFlushEnabled
           /\ mInputReader' = r.q
           /\ mPendingEvent' = r.pending
           /\ call' = [NoCall EXCEPT !.op = "readEvents", !.count = count,
                          !.ret = r.ret, !.data = r.data,
                          !.flushAtEntry = mFlushEnabled,
                          !.flushCallsAtEntry = flushCalls, !.n = r.n,
                          !.refilled = r.filled,
                          !.enabledAtEntry = mEnabled, !.fdAtEntry = dev_fd,
                          !.consumed = IF r.ret < 0 THEN <<>>
                                       ELSE SubSeq(all, 1, Len(all) - Len(r.q)),
                          !.pendingAtEntry = mPendingEvent]
           /\ flushCalls' = IF r.ret >= 0 THEN 0 ELSE flushCalls
    /\ UNCHANGED <<kind, ctxVars, mEnabled, dev_fd, iioVars>>

\* GyroSensor::flush
GyroFlush(handle) ==
    /\ kind = "gyro"
    /\ mFlushEnabled' = 1
    /\ flushCalls' = Min(flushCalls + 1, 2)
    /\ call' = [NoCall EXCEPT !.op = "flush", !.handle = handle, !.ret = 0,
                   !.flushAtEntry = mFlushEnabled,
                   !.flushCallsAtEntry = flushCalls,
                   !.enabledAtEntry = mEnabled, !.fdAtEntry = dev_fd]
    /\ UNCHANGED <<kind, ctxVars, mEnabled, dev_fd, mPendingEvent, mInputReader,
                   iioVars>>

\* Faulty variant of setEnable: mEnabled follows the request even when the
\* SET_ENABLE ioctl fails.
GyroSetEnableResultIgnoresErr(en, enabled, fd, openOk, driverOk) ==
    LET flags == IF en # 0 THEN 1 ELSE 0
        fd1 == IF flags = 1 THEN open_device(fd, openOk) ELSE fd
        ok == IoctlOk(fd1, driverOk)
    IN  IF flags # enabled
        THEN [ret |-> IF ok THEN 0 ELSE -EIO,
              mEnabled |-> flags,
              dev_fd |-> IF flags = 0 THEN close_device(fd1) ELSE fd1,
              writes |-> <<[attr |-> "SET_ENABLE", val |-> flags, ok |-> ok]>>]
        ELSE [ret |-> 0, mEnabled |-> enabled, dev_fd |-> fd, writes |-> <<>>]

\* GyroSensor::setEnable as a function of mEnabled, dev_fd and the outcomes of
\* open(2) and of the SET_ENABLE ioctl: the result, the new members and the
\* ioctls issued.
GyroSetEnableResult(en, enabled, fd, openOk, driverOk) ==
    LET flags == IF en # 0 THEN 1 ELSE 0
        fd1 == IF flags = 1 THEN open_device(fd, openOk) ELSE fd
        ok == IoctlOk(fd1, driverOk)
    IN  IF flags # enabled
        THEN [ret |-> IF ok THEN 0 ELSE -EIO,
              mEnabled |-> IF ok THEN flags ELSE enabled,
              dev_fd |-> IF flags = 0 THEN close_device(fd1) ELSE fd1,
              writes |-> <<[attr |-> "SET_ENABLE", val |-> flags, ok |-> ok]>>]
        ELSE [ret |-> 0, mEnabled |-> enabled, dev_fd |-> fd, writes |-> <<>>]

\* GyroSensor::setEnable
GyroSetEnable(en, openOk, driverOk) ==
    /\ kind = "gyro"
    /\ LET r == GyroSetEnableResult(en, mEnabled, dev_fd, openOk, driverOk)
       IN  /\ mEnabled' = r.mEnabled
           /\ dev_fd' = r.dev_fd
           /\ call' = [NoCall EXCEPT !.op = "setEnable", !.en = en,
                          !.ret = r.ret, !.writes = r.writes,
                          !.flushAtEntry = mFlushEnabled,
                          !.flushCallsAtEntry = flushCalls,
                          !.enabledAtEntry = mEnabled,
                          !.fdAtEntry = dev_fd]
    /\ UNCHANGED <<kind, ctxVars, mFlushEnabled, mPendingEvent, mInputReader,
                   iioVars, flushCalls>>

\* GyroSensor::getEnable
getEnable == mEnabled

\* GyroSensor::setDelay
GyroSetDelay(ns, openOk, driverOk) ==
    /\ kind = "gyro"
    /\ IF ns < 0
       THEN /\ UNCHANGED dev_fd
            /\ call' = [NoCall EXCEPT !.op = "setDelay", !.period = ns,
                           !.ret = -EINVAL, !.flushAtEntry = mFlushEnabled,
                           !.flushCallsAtEntry = flushCalls,
                           !.enabledAtEntry = mEnabled,
                           !.fdAtEntry = dev_fd]
       ELSE LET fd1 == IF mEnabled = 0 /\ dev_fd = -1
                       THEN open_device(dev_fd, openOk) ELSE dev_fd
                ok == IoctlOk(fd1, driverOk)
            IN  /\ dev_fd' = IF ok /\ mEnabled = 0 THEN close_device(fd1)
                             ELSE fd1
                /\ call' = [NoCall EXCEPT !.op = "setDelay", !.period = ns,
                               !.ret = IF ok THEN 0 ELSE -EIO,
                               !.writes = <<[attr |-> "SET_DELAY",
                                             val |-> ns \div 1000000,
                                             ok |-> ok]>>,
                               !.flushAtEntry = mFlushEnabled,
                               !.flushCallsAtEntry = flushCalls,
                               !.enabledAtEntry = mEnabled,
                               !.fdAtEntry = dev_fd]
    /\ UNCHANGED <<kind, ctxVars, mEnabled, mFlushEnabled, mPendingEvent,
                   mInputReader, iioVars, flushCalls>>

\* ----------------------------------------------------------- IioSensor
\* a & b on naturals
RECURSIVE BitAnd(_, _)
BitAnd(a, b) ==
    IF a = 0 \/ b = 0 THEN 0
    ELSE (a % 2) * (b % 2) + 2 * BitAnd(a \div 2, b \div 2)

\* IioSensor::hasSensor
hasSensor(handle) == OwnHandle = handle

\* (sensor.flags & REPORTING_MODE_MASK) == SENSOR_FLAG_ONE_SHOT_MODE
IsOneShot(flags) ==
    BitAnd(flags, REPORTING_MODE_MASK) = SENSOR_FLAG_ONE_SHOT_MODE

\* readEvents, the cursor: the byte offset from iio_buffer_start() at which
\* decoding begins, given remaining_samples on entry.
IioStart(rem) == IF rem = 0 THEN 0 ELSE rem * SampleSize

\* readEvents, the copy loop: for (copied = 0; copied < remaining_samples &&
\* copied < count; ++copied, start += sample_size); the events decoded, each
\* named by the index of the record its bytes start in.
RECURSIVE IioCopy(_, _, _, _, _)
IioCopy(data, copied, start, rem, count) ==
    IF copied < rem /\ copied < count
    THEN IioCopy(Append(data, IioEvent(start \div SampleSize)), copied + 1,
                 start + SampleSize, rem, count)
    ELSE [data |-> data, copied |-> copied]

\* Faulty variant of readEvents: a failed refill is reported as -EIO whatever
\* the refill returned.
IioReadEventsResultRemapsError(rem, count, bytes) ==
    IF rem = 0 /\ bytes < 0
    THEN [ret |-> -EIO, data |-> <<>>, rem |-> rem, refilled |-> TRUE,
          remAfterRefill |-> rem]
    ELSE LET rem1 == IF rem = 0 THEN bytes \div SampleSize ELSE rem
             c == IioCopy(<<>>, 0, IioStart(rem), rem1, count)
         IN  [ret |-> c.copied, data |-> c.data, rem |-> rem1 - c.copied,
              refilled |-> (rem = 0), remAfterRefill |-> rem1]

\* IioSensor::readEvents as a function of remaining_samples, the capacity and
\* what iio_buffer_refill() returns if it is called.
IioReadEventsResult(rem, count, bytes) ==
    IF rem = 0 /\ bytes < 0
    THEN [ret |-> bytes, data |-> <<>>, rem |-> rem, refilled |-> TRUE,
          remAfterRefill |-> rem]
    ELSE LET rem1 == IF rem = 0 THEN bytes \div SampleSize ELSE rem
             c == IioCopy(<<>>, 0, IioStart(rem), rem1, count)
         IN  [ret |-> c.copied, data |-> c.data, rem |-> rem1 - c.copied,
              refilled |-> (rem = 0), remAfterRefill |-> rem1]

\* what iio_buffer_refill() can return: an error, or a number of bytes
RefillResults == {-EIO, -EAGAIN} \cup {k * SampleSize : k \in 0..MaxRecords}

Recs(data) == [i \in 1..Len(data) |-> data[i].rec]

\* IioSensor::getFd
getFd == IF iio_buf THEN OpenFd ELSE -1

\* readEvents is called by the poll loop on the descriptor getFd() gave it, so
\* only while a buffer exists.
IioReadEvents(count, bytes) ==
    /\ kind = "iio"
    /\ iio_buf
    /\ LET r == IioReadEventsResult(remaining_samples, count, bytes)
       IN  /\ remaining_samples' = r.rem
           /\ bufRecords' = IF r.refilled /\ r.ret >= 0
                            THEN bytes \div SampleSize ELSE bufRecords
           /\ delivered' = IF r.refilled /\ r.ret >= 0 THEN Recs(r.data)
                           ELSE delivered \o Recs(r.data)
           /\ lowCap' = IF r.refilled /\ r.ret >= 0 THEN count < 1
                        ELSE lowCap \/ count < 1
           /\ call' = [NoCall EXCEPT !.op = "readEvents", !.count = count,
                          !.ret = r.ret, !.data = r.data,
                          !.flushCallsAtEntry = flushCalls,
                          !.n = IF r.refilled THEN bytes ELSE 0,
                          !.refilled = r.refilled,
                          !.remAtEntry = remaining_samples,
                          !.remAfterRefill = r.remAfterRefill,
                          !.fdAtEntry = getFd]
           /\ flushCalls' = IF r.ret >= 0 THEN 0 ELSE flushCalls
    /\ UNCHANGED <<kind, ctxVars, gyroVars, sensor_flags, iio_buf, liveBuffers,
                   wantEnabled>>

\* Faulty variant of setEnable: an enable request creates a buffer even when
\* one exists.
IioSetEnableResultAlwaysCreates(handle, enabled, buf, createOk) ==
    IF ~hasSensor(handle)
    THEN [ret |-> -EINVAL, iio_buf |-> buf, created |-> FALSE,
          destroyed |-> FALSE]
    ELSE IF enabled # 0
    THEN [ret |-> IF createOk THEN 0 ELSE -EIO, iio_buf |-> createOk,
          created |-> createOk, destroyed |-> FALSE]
    ELSE [ret |-> 0, iio_buf |-> FALSE, created |-> FALSE, destroyed |-> buf]

\* IioSensor::setEnable as a function of iio_buf; `createOk` is whether
\* iio_device_create_buffer works.  `created` / `destroyed`: the call created
\* / destroyed a buffer.
IioSetEnableResult(handle, enabled, buf, createOk) ==
    IF ~hasSensor(handle)
    THEN [ret |-> -EINVAL, iio_buf |-> buf, created |-> FALSE,
          destroyed |-> FALSE]
    ELSE IF enabled # 0
    THEN IF ~buf
         THEN [ret |-> IF createOk THEN 0 ELSE -EIO, iio_buf |-> createOk,
               created |-> createOk, destroyed |-> FALSE]
         ELSE [ret |-> 0, iio_buf |-> buf, created |-> FALSE,
               destroyed |-> FALSE]
    ELSE [ret |-> 0, iio_buf |-> FALSE, created |-> FALSE, destroyed |-> buf]

\* IioSensor::setEnable.  remaining_samples is not touched; a new buffer holds
\* no refilled data.
IioSetEnable(handle, enabled, createOk) ==
    /\ kind = "iio"
    /\ LET r == IioSetEnableResult(handle, enabled, iio_buf, createOk)
       IN  /\ iio_buf' = r.iio_buf
           /\ liveBuffers' = liveBuffers + (IF r.created THEN 1 ELSE 0)
                                         - (IF r.destroyed THEN 1 ELSE 0)
           /\ wantEnabled' = IF hasSensor(handle) /\ r.ret = 0
                             THEN enabled # 0 ELSE wantEnabled
           /\ IF r.created \/ r.destroyed
              THEN bufRecords' = -1 /\ delivered' = <<>> /\ lowCap' = FALSE
              ELSE UNCHANGED <<bufRecords, delivered, lowCap>>
           /\ call' = [NoCall EXCEPT !.op = "setEnable", !.handle = handle,
                          !.en = enabled, !.ret = r.ret,
                          !.flushCallsAtEntry = flushCalls,
                          !.remAtEntry = remaining_samples,
                          !.fdAtEntry = getFd]
    /\ UNCHANGED <<kind, ctxVars, gyroVars, sensor_flags, remaining_samples,
                   flushCalls>>

\* Faulty variant of batch: a period of exactly 1000 ns is rejected too.
IioBatchResultOffByOne(handle, period, latency, latOk, freqOk) ==
    IF ~hasSensor(handle) \/ period <= 1000
    THEN [ret |-> -EINVAL, writes |-> <<>>]
    ELSE [ret |-> IF freqOk THEN 0 ELSE -EIO,
          writes |-> << [attr |-> "max_latency_ns", val |-> <<latency, 1>>,
                         ok |-> latOk],
                        [attr |-> "in_sampling_frequency",
                         val |-> <<1000000000, period>>, ok |-> freqOk] >>]

\* IioSensor::batch: the attribute writes it attempts, in order, and its result.
IioBatchResult(handle, period, latency, latOk, freqOk) ==
    IF ~hasSensor(handle) \/ period < 1000
    THEN [ret |-> -EINVAL, writes |-> <<>>]
    ELSE [ret |-> IF freqOk THEN 0 ELSE -EIO,
          writes |-> << [attr |-> "max_latency_ns", val |-> <<latency, 1>>,
                         ok |-> latOk],
                        [attr |-> "in_sampling_frequency",
                         val |-> <<1000000000, period>>, ok |-> freqOk] >>]

Periods == {-1, 0, 999, 1000, 1001, 500000}

IioBatch(handle, period, latency, latOk, freqOk) ==
    /\ kind = "iio"
    /\ LET r == IioBatchResult(handle, period, latency, latOk, freqOk)
       IN  call' = [NoCall EXCEPT !.op = "batch", !.handle = handle,
                       !.period = period, !.ret = r.ret, !.writes = r.writes,
                       !.flushCallsAtEntry = flushCalls,
                       !.remAtEntry = remaining_samples]
    /\ UNCHANGED <<kind, ctxVars, gyroVars, iioVars, flushCalls>>

\* Faulty variant of flush: the reporting mode is not looked at.
IioFlushResultAnyMode(handle, flags, writeOk) ==
    IF hasSensor(handle)
    THEN [ret |-> IF writeOk THEN 0 ELSE -EIO,
          writes |-> << [attr |-> "flush", val |-> <<1, 1>>,
                         ok |-> writeOk] >>]
    ELSE [ret |-> -EINVAL, writes |-> <<>>]

\* IioSensor::flush: the attribute write it makes, if any, and its result.
IioFlushResult(handle, flags, writeOk) ==
    IF hasSensor(handle)
    THEN IF IsOneShot(flags)
         THEN [ret |-> -EINVAL, writes |-> <<>>]
         ELSE [ret |-> IF writeOk THEN 0 ELSE -EIO,
               writes |-> << [attr |-> "flush", val |-> <<1, 1>>,
                              ok |-> writeOk] >>]
    ELSE [ret |-> -EINVAL, writes |-> <<>>]

IioFlush(handle, writeOk) ==
    /\ kind = "iio"
    /\ LET r == IioFlushResult(handle, sensor_flags, writeOk)
       IN  /\ call' = [NoCall EXCEPT !.op = "flush", !.handle = handle,
                          !.ret = r.ret, !.writes = r.writes,
                          !.flushCallsAtEntry = flushCalls,
                          !.remAtEntry = remaining_samples]
           /\ flushCalls' = IF r.writes # <<>> THEN Min(flushCalls + 1, 2)
                            ELSE flushCalls
    /\ UNCHANGED <<kind, ctxVars, gyroVars, iioVars>>

\* Faulty variant of createIioContext: the static flag is set only when a
\* context was made.
CreateIioContextResultRetries(isCreated, ctxOk) ==
    IF isCreated
    THEN [ctx |-> FALSE, created |-> isCreated]
    ELSE [ctx |-> ctxOk, created |-> ctxOk]

\* IioSensor::createIioContext as a function of the static flag; `ctxOk` is
\* whether iio_create_local_context() returns a context.  `ctx`: a non-null
\* context is returned.
CreateIioContextResult(isCreated, ctxOk) ==
    IF isCreated
    THEN [ctx |-> FALSE, created |-> isCreated]
    ELSE [ctx |-> ctxOk, created |-> TRUE]

\* IioSensor::createIioContext (static: it touches no sensor object)
CreateIioContext(ctxOk) ==
    /\ kind = "ctx"
    /\ LET r == CreateIioContextResult(created, ctxOk)
       IN  /\ created' = r.created
           /\ ctxCalls' = Min(ctxCalls + 1, 2)
           /\ ctxNonNull' = Min(ctxNonNull + (IF r.ctx THEN 1 ELSE 0), 2)
           /\ call' = [NoCall EXCEPT !.op = "createIioContext", !.ctx = r.ctx,
                          !.ctxCallsAtEntry = ctxCalls]
    /\ UNCHANGED <<kind, gyroVars, iioVars, flushCalls>>

\* -------------------------------------------------------- specification
Handles == {OwnHandle, OtherHandle}

\* sensor.flags as read from the device: each reporting mode, with and
\* without the wake-up bit
SensorFlags == {0, 1, 2, 4, 5, 6}

\* GyroSensor::GyroSensor: the device is kept open only if GET_ENABLE reports
\* it enabled.
GyroInit ==
    \E openOk \in BOOLEAN, driverOk \in BOOLEAN, flags \in {0, 1} :
        LET fd == open_device(-1, openOk)
            en == IF IoctlOk(fd, driverOk) /\ flags # 0 THEN 1 ELSE 0
        IN  /\ mEnabled = en
            /\ dev_fd = IF en = 0 THEN close_device(fd) ELSE fd
            /\ mFlushEnabled = 0
            /\ mPendingEvent = GyroEvent(0, 0, 0, 0)
            /\ mInputReader = <<>>

\* IioSensor::IioSensor
IioInit ==
    /\ remaining_samples = 0
    /\ iio_buf = FALSE
    /\ bufRecords = -1
    /\ delivered = <<>>
    /\ lowCap = FALSE
    /\ liveBuffers = 0
    /\ wantEnabled = FALSE

Init ==
    /\ kind \in {"gyro", "iio", "ctx"}
    /\ IF kind = "gyro"
       THEN /\ GyroInit
            /\ sensor_flags = 0
       ELSE /\ mEnabled = 0 /\ dev_fd = -1 /\ mFlushEnabled = 0
            /\ mPendingEvent = GyroEvent(0, 0, 0, 0)
            /\ mInputReader = <<>>
            /\ sensor_flags \in (IF kind = "iio" THEN SensorFlags ELSE {0})
    /\ IioInit
    /\ created = FALSE
    /\ ctxCalls = 0
    /\ ctxNonNull = 0
    /\ call = NoCall
    /\ flushCalls = 0

Next ==
    \/ \E count \in Counts, in \in FillInputs(DriverEvents) :
          GyroReadEvents(count, in)
    \/ \E h \in Handles : GyroFlush(h)
    \/ \E en \in 0..2, openOk \in BOOLEAN, driverOk \in BOOLEAN :
          GyroSetEnable(en, openOk, driverOk)
    \/ \E ns \in {-1, 0, 20000000}, openOk \in BOOLEAN, driverOk \in BOOLEAN :
          GyroSetDelay(ns, openOk, driverOk)
    \/ \E count \in Counts, bytes \in RefillResults :
          IioReadEvents(count, bytes)
    \/ \E h \in Handles, en \in 0..1, createOk \in BOOLEAN :
          IioSetEnable(h, en, createOk)
    \/ \E h \in Handles, period \in Periods, latOk \in BOOLEAN,
          freqOk \in BOOLEAN : IioBatch(h, period, 0, latOk, freqOk)
    \/ \E h \in Handles, writeOk \in BOOLEAN : IioFlush(h, writeOk)
    \/ \E ctxOk \in BOOLEAN : CreateIioContext(ctxOk)

Spec == Init /\ [][Next]_vars

\* The decoding of GyroSensor::readEvents on the richer input: a sensor
\* constructed enabled or disabled reads fills of up to MaxDecodeFill events.
DecodeFills ==
    {[err |-> -EIO, events |-> <<>>]} \cup
    {[err |-> 0, events |-> s] :
        s \in UNION {[1..k -> DecodeEvents] : k \in 0..MaxDecodeFill}}

DecodeInit ==
    /\ kind = "gyro"
    /\ GyroInit
    /\ sensor_flags = 0
    /\ IioInit
    /\ created = FALSE
    /\ ctxCalls = 0
    /\ ctxNonNull = 0
    /\ call = NoCall
    /\ flushCalls = 0

DecodeNext ==
    \E count \in 1..MaxCount, in \in DecodeFills : GyroReadEvents(count, in)

SpecDecode == DecodeInit /\ [][DecodeNext]_vars

\* ------------------------------------------------------------- claims
IsRead == call.op = "readEvents"

\* C1: a GyroSensor::readEvents call with maxCount >= 1 and a flush pending
\* whose fill step fails returns 1 with the FlushMarker as its only element,
\* and a flush request stays pending until a batch has been returned for it.
C1_MarkerSurvivesFillError ==
    kind = "gyro" =>
        /\ (IsRead /\ call.count >= 1 /\ call.flushAtEntry # 0 /\ call.n < 0)
              => (call.ret = 1 /\ call.data = <<mFlushEvent>>)
        /\ (flushCalls > 0 => mFlushEnabled # 0)

\* C2: with capacities >= 1 and no disable since the refill, the records of
\* one refill are decoded in buffer order, each once: the k-th record decoded
\* since the refill is record k-1, so a continuation call starts right after
\* the last record of the previous call.
C2_Conservation ==
    (kind = "iio" /\ bufRecords >= 0 /\ ~lowCap) =>
        \A i \in 1..Len(delivered) : delivered[i] = i - 1

\* C3: after two or more flush() calls the next batch GyroSensor::readEvents
\* returns holds exactly one FlushMarker, and a batch returned with no flush()
\* since the previous batch holds none.
C3_FlushIdempotent ==
    (kind = "gyro" /\ IsRead /\ call.ret >= 0) =>
        /\ call.flushCallsAtEntry >= 2 => Markers(call.data) = 1
        /\ call.flushCallsAtEntry = 0 => Markers(call.data) = 0

\* C4: every batch GyroSensor::readEvents returns holds at most one
\* FlushMarker, at position 0 and present exactly when a flush was pending; the
\* batch, marker included, fits the capacity, and the pending flag is clear
\* when the call returns.
C4_FlushOrdering ==
    (kind = "gyro" /\ IsRead /\ call.ret >= 0) =>
        /\ Markers(call.data) <= 1
        /\ \A i \in 2..Len(call.data) : ~IsMarker(call.data[i])
        /\ (call.flushAtEntry # 0) <=>
              (Len(call.data) >= 1 /\ IsMarker(call.data[1]))
        /\ Len(call.data) <= call.count
        /\ mFlushEnabled = 0

\* a batch with the marker first and a decoded sample behind it
C4_Witness ==
    /\ kind = "gyro" /\ IsRead /\ call.ret = 2
    /\ IsMarker(call.data[1]) /\ call.data[2].type = "GYROSCOPE"
    /\ call.flushCallsAtEntry = 2

\* C5: a readEvents call with capacity C >= 1 that returns no error returns a
\* count in [0, C] equal to the number of events it wrote (both classes).
C5_CountWithinCapacity ==
    (IsRead /\ call.count >= 1 /\ call.ret >= 0) =>
        /\ call.ret \in 0..call.count
        /\ call.ret = Len(call.data)

\* a full batch that starts with the marker
C5_Witness ==
    /\ kind = "gyro" /\ IsRead /\ call.count = MaxCount
    /\ call.ret = MaxCount /\ IsMarker(call.data[1])

\* C6: IioSensor::readEvents refills exactly when remaining_samples is 0 on
\* entry, returns min(remaining_samples after the refill, capacity), lowers
\* remaining_samples by that count, and a call that does not refill delivers
\* the carried-over records: those following the ones already delivered.
C6_LazyRefillCarryOver ==
    (kind = "iio" /\ IsRead) =>
        /\ call.refilled <=> (call.remAtEntry = 0)
        /\ (call.ret >= 0 /\ call.count >= 1) =>
              /\ call.ret = Min(call.remAfterRefill, call.count)
              /\ remaining_samples = call.remAfterRefill - call.ret
              /\ (~call.refilled /\ bufRecords >= 0 /\ ~lowCap) =>
                    \A i \in 1..Len(call.data) :
                        call.data[i].rec = bufRecords - call.remAtEntry + i - 1

\* sensor.flags values whose reporting-mode bits (bits 1..3) say one-shot
OneShotFlags == {f \in SensorFlags : (f \div 2) % 8 = 2}

\* C7: IioSensor::flush on a one-shot sensor returns -EINVAL, writes no device
\* attribute and leaves no flush request behind.
C7_OneShotFlushRejected ==
    (kind = "iio" /\ call.op = "flush" /\ sensor_flags \in OneShotFlags) =>
        /\ call.ret = -EINVAL
        /\ call.writes = <<>>
        /\ flushCalls = call.flushCallsAtEntry

\* flush with the sensor's own handle on a one-shot wake-up sensor
C7_Witness ==
    /\ kind = "iio" /\ call.op = "flush" /\ call.handle = OwnHandle
    /\ sensor_flags = 5 /\ call.ret = -EINVAL

\* C8: readEvents with maxCount < 1 returns -EINVAL on both classes, writes no
\* event, keeps a pending flush, and neither fills nor refills nor consumes
\* remaining_samples.
C8_SmallCountRejected ==
    (IsRead /\ call.count < 1) =>
        /\ call.ret = -EINVAL
        /\ call.data = <<>>
        /\ ~call.refilled
        /\ kind = "gyro" => mFlushEnabled = call.flushAtEntry
        /\ kind = "iio" => remaining_samples = call.remAtEntry

\* C9: IioSensor::batch returns -EINVAL and writes nothing for a foreign
\* handle or a period below 1000 ns; otherwise it attempts the max-latency
\* write and then the sampling-frequency write, whatever the first one gave.
C9_BatchPeriodCheck ==
    (kind = "iio" /\ call.op = "batch") =>
        IF call.handle # OwnHandle \/ call.period < 1000
        THEN call.ret = -EINVAL /\ call.writes = <<>>
        ELSE /\ Len(call.writes) = 2
             /\ call.writes[1].attr = "max_latency_ns"
             /\ call.writes[2].attr = "in_sampling_frequency"

\* a period of exactly 1000 ns, accepted, with the first write failing
C9_Witness ==
    /\ kind = "iio" /\ call.op = "batch" /\ call.handle = OwnHandle
    /\ call.period = 1000 /\ Len(call.writes) = 2 /\ ~call.writes[1].ok

\* C10: IioSensor::flush with the sensor's own handle on a sensor that is not
\* one-shot returns success whatever the device does, and the next
\* IioSensor::readEvents call delivers a FlushMarker as its first element.
C10_IioFlushMarker ==
    kind = "iio" =>
        /\ (call.op = "flush" /\ call.handle = OwnHandle
              /\ sensor_flags \notin OneShotFlags) => call.ret = 0
        /\ (IsRead /\ call.count >= 1 /\ call.flushCallsAtEntry > 0) =>
              (Len(call.data) >= 1 /\ IsMarker(call.data[1]))

\* C11: the GyroSensor device handle is open whenever getEnable reports
\* enabled, and closed once a disable request has returned.
C11_HandleFollowsEnable ==
    kind = "gyro" =>
        /\ getEnable # 0 => dev_fd >= 0
        /\ (call.op = "setEnable" /\ call.en = 0) => dev_fd = -1

\* C12: GyroSensor::setDelay on a disabled sensor leaves the handle as it
\* found it (it closes the handle exactly when it opened it), and on an
\* enabled sensor it never closes the handle.
C12_SetDelayTransientOpen ==
    (kind = "gyro" /\ call.op = "setDelay") =>
        /\ call.enabledAtEntry = 0 => ((dev_fd >= 0) <=> (call.fdAtEntry >= 0))
        /\ call.enabledAtEntry # 0 => dev_fd = call.fdAtEntry

\* C20: getEnable changes only through a SET_ENABLE ioctl that succeeded; a
\* setEnable that returns an error leaves it alone, one that returns 0 leaves
\* it at the requested state, and a request for the current state issues no
\* ioctl, neither opens nor closes the device, and returns 0.
C20_EnableTracksDevice ==
    kind = "gyro" =>
        /\ call.op \notin {"none", "setEnable"} =>
              getEnable = call.enabledAtEntry
        /\ call.op = "setEnable" =>
              LET flags == IF call.en # 0 THEN 1 ELSE 0
              IN  /\ call.ret < 0 => getEnable = call.enabledAtEntry
                  /\ call.ret = 0 => getEnable = flags
                  /\ getEnable # call.enabledAtEntry =>
                        /\ Len(call.writes) = 1
                        /\ call.writes[1].attr = "SET_ENABLE"
                        /\ call.writes[1].ok
                  /\ flags = call.enabledAtEntry =>
                        /\ call.writes = <<>>
                        /\ dev_fd = call.fdAtEntry
                        /\ call.ret = 0

\* an enable request whose ioctl failed after the device was opened
C20_Witness ==
    /\ kind = "gyro" /\ call.op = "setEnable" /\ call.en # 0
    /\ call.enabledAtEntry = 0 /\ call.ret < 0
    /\ call.fdAtEntry = -1 /\ dev_fd >= 0

\* C15: every buffer that setEnable creates starts with remaining_samples = 0,
\* so a readEvents that decodes without refilling always reads data that a
\* refill put into the current buffer.
C15_NewBufferStartsEmpty ==
    kind = "iio" =>
        /\ (call.op = "setEnable" /\ call.fdAtEntry = -1 /\ iio_buf)
               => remaining_samples = 0
        /\ (IsRead /\ ~call.refilled) => bufRecords >= 0

\* C16: a buffer exists iff the last successful own-handle setEnable asked for
\* enable; there is never more than one live buffer; disabling leaves none; a
\* foreign handle gets -EINVAL and changes nothing; getFd is -1 exactly when
\* there is no buffer.
C16_BufferLifecycle ==
    kind = "iio" =>
        /\ iio_buf <=> wantEnabled
        /\ liveBuffers = IF iio_buf THEN 1 ELSE 0
        /\ (getFd = -1) <=> ~iio_buf
        /\ call.op = "setEnable" =>
               /\ ~hasSensor(call.handle) =>
                      /\ call.ret = -EINVAL
                      /\ getFd = call.fdAtEntry
                      /\ remaining_samples = call.remAtEntry
               /\ (hasSensor(call.handle) /\ call.en = 0) =>
                      call.ret = 0 /\ ~iio_buf
               /\ (hasSensor(call.handle) /\ call.en # 0
                       /\ call.fdAtEntry # -1) =>
                      call.ret = 0 /\ getFd = call.fdAtEntry

\* an enable request on an already enabled sensor has succeeded
C16_Witness ==
    /\ kind = "iio"
    /\ call.op = "setEnable"
    /\ hasSensor(call.handle)
    /\ call.en # 0
    /\ call.fdAtEntry # -1
    /\ call.ret = 0
    /\ liveBuffers = 1

\* C17: a readEvents whose refill fails returns the refill's negative value
\* itself, writes nothing and leaves remaining_samples at 0; a readEvents that
\* finds remaining_samples at 0 refills.
C17_RefillFailure ==
    (kind = "iio" /\ IsRead) =>
        /\ (call.refilled /\ call.n < 0) =>
               /\ call.ret = call.n
               /\ call.data = <<>>
               /\ remaining_samples = 0
        /\ call.remAtEntry = 0 => call.refilled

\* a refill has failed with EAGAIN
C17_Witness ==
    /\ kind = "iio"
    /\ IsRead
    /\ call.refilled
    /\ call.n = -EAGAIN
    /\ call.ret = -EAGAIN
    /\ remaining_samples = 0

\* C19: with capacities >= 1 since the last successful refill of the current
\* buffer, every record decoded since then has an index inside that refill's
\* records.
C19_CursorInBounds ==
    (kind = "iio" /\ bufRecords >= 0 /\ ~lowCap) =>
        \A i \in 1..Len(delivered) : delivered[i] \in 0..(bufRecords - 1)

\* C14: at most one call of createIioContext returns a context, and every call
\* after the first returns null, whether or not the first made a context.
C14_ContextOnce ==
    kind = "ctx" =>
        /\ ctxNonNull <= 1
        /\ ctxCalls >= 1 => created
        /\ (call.op = "createIioContext" /\ call.ctxCallsAtEntry >= 1)
               => ~call.ctx

\* a call after a first call that made no context has returned null
C14_Witness ==
    /\ kind = "ctx"
    /\ call.op = "createIioContext"
    /\ call.ctxCallsAtEntry >= 1
    /\ ctxNonNull = 0
    /\ ~call.ctx


\* ---- the decoding, stated from the events a call consumed
Recognized(e) ==
    \/ e.type = "EV_SYN"
    \/ e.type = "EV_REL" /\ e.code \in {"GYRO_P", "GYRO_R", "GYRO_Y"}

\* positions of the sync events in c, and the i-th of them
SynIdx(c) == {j \in 1..Len(c) : c[j].type = "EV_SYN"}

NthSyn(c, i) ==
    CHOOSE j \in SynIdx(c) : Cardinality({m \in SynIdx(c) : m <= j}) = i

\* positions before k of the updates of the axis `code`
AxisIdx(c, k, code) ==
    {j \in 1..(k - 1) : c[j].type = "EV_REL" /\ c[j].code = code}

Last(S) == CHOOSE j \in S : \A m \in S : m <= j

\* the axis `code` as it stands before position k: the last update scaled by
\* `factor`, or the value `old` from before the call
AxisAt(c, k, code, factor, old) ==
    IF AxisIdx(c, k, code) = {} THEN old
    ELSE c[Last(AxisIdx(c, k, code))].value * factor

\* the pending sample after the sync at position k of c
SampleAt(c, k, p0) ==
    GyroEvent(AxisAt(c, k, "GYRO_R", CONVERT_G_R, p0.x),
              AxisAt(c, k, "GYRO_P", CONVERT_G_P, p0.y),
              AxisAt(c, k, "GYRO_Y", CONVERT_G_Y, p0.z),
              timevalToNano(c[k].time))

Samples(data) == SelectSeq(data, LAMBDA e : ~IsMarker(e))

\* C13: a readEvents call emits one sample per sync event it consumed when the
\* sensor is enabled and none otherwise; each sample carries the time of its
\* sync and, for each axis, the last value received before that sync (from
\* this call or an earlier one); axis updates emit nothing, and the pending
\* sample is kept, not reset, after a sync.
C13_Decoding ==
    (kind = "gyro" /\ IsRead /\ call.ret >= 0) =>
        LET c == call.consumed
            p0 == call.pendingAtEntry
            out == Samples(call.data)
            end == Len(c) + 1
        IN  /\ Len(out) = IF call.enabledAtEntry # 0
                          THEN Cardinality(SynIdx(c)) ELSE 0
            /\ \A i \in 1..Len(out) : out[i] = SampleAt(c, NthSyn(c, i), p0)
            /\ mPendingEvent.x = AxisAt(c, end, "GYRO_R", CONVERT_G_R, p0.x)
            /\ mPendingEvent.y = AxisAt(c, end, "GYRO_P", CONVERT_G_P, p0.y)
            /\ mPendingEvent.z = AxisAt(c, end, "GYRO_Y", CONVERT_G_Y, p0.z)
            /\ mPendingEvent.timestamp =
                   IF SynIdx(c) = {} THEN p0.timestamp
                   ELSE timevalToNano(c[Last(SynIdx(c))].time)

\* an enabled sensor has emitted a sample whose P value is the second of two
\* updates and whose R value came from an earlier call, at the sync's time
C13_Witness ==
    /\ kind = "gyro"
    /\ IsRead
    /\ call.enabledAtEntry # 0
    /\ call.consumed = <<InputEvent("EV_REL", "GYRO_P", 2, 0, 0),
                         InputEvent("EV_SYN", "SYN_REPORT", 0, 1, 1)>>
    /\ call.pendingAtEntry.y = 1 * CONVERT_G_P
    /\ call.pendingAtEntry.x = 1 * CONVERT_G_R
    /\ call.data = <<GyroEvent(CONVERT_G_R, 2 * CONVERT_G_P, 0, 1000001000)>>
    /\ mPendingEvent = call.data[1]

\* C18: in a readEvents call that consumed an event of unknown type or an
\* axis update with an unknown code, the samples are still one per sync (none
\* for the unknown event), an axis with no recognized update and a timestamp
\* with no sync are as before the call, and the call went on until the
\* capacity was used or the queue was empty.
C18_UnknownDiscarded ==
    (kind = "gyro" /\ IsRead /\ call.ret >= 0
         /\ \E j \in 1..Len(call.consumed) : ~Recognized(call.consumed[j])) =>
        LET c == call.consumed
            p0 == call.pendingAtEntry
            end == Len(c) + 1
        IN  /\ Len(Samples(call.data)) = IF call.enabledAtEntry # 0
                                         THEN Cardinality(SynIdx(c)) ELSE 0
            /\ AxisIdx(c, end, "GYRO_R") = {} => mPendingEvent.x = p0.x
            /\ AxisIdx(c, end, "GYRO_P") = {} => mPendingEvent.y = p0.y
            /\ AxisIdx(c, end, "GYRO_Y") = {} => mPendingEvent.z = p0.z
            /\ SynIdx(c) = {} => mPendingEvent.timestamp = p0.timestamp
            /\ Len(call.data) = call.count \/ mInputReader = <<>>

\* an enabled sensor holding a non-zero sample has consumed an unknown event
\* and then a sync in one call, and emitted the sample for the sync
C18_Witness ==
    /\ kind = "gyro"
    /\ IsRead
    /\ call.enabledAtEntry # 0
    /\ Len(call.consumed) = 2
    /\ ~Recognized(call.consumed[1])
    /\ call.consumed[2].type = "EV_SYN"
    /\ call.pendingAtEntry.y # 0
    /\ call.ret = 1
    /\ call.data[1].y = call.pendingAtEntry.y

=============================================================================
